---------------------------- MODULE Spec2Model ----------------------------
(***************************************************************************)
(* Model of src/parser.py: the batch driver main(), the per-file parser    *)
(* parse_excel_file() and its helpers, calculate_totals() and the sort of  *)
(* the period labels.                                                      *)
(*                                                                         *)
(* Representation.  A Python str is a sequence of one-character strings,   *)
(* so that re.search, str.upper, str.lower, "in", str.split, str.zfill and *)
(* int() are computed on the characters.  Labels are written in ASCII      *)
(* ("trvaly" for "trvalý", "Ruska federace" for "Ruská federace"); the     *)
(* record fields muži, ženy, celkem are muzi, zeny, celkem.  None is the   *)
(* empty sequence where a str is expected and NoRow where a row index is.  *)
(* Row and file indices are the 0-based Python indices.                    *)
(***************************************************************************)
EXTENDS Integers, Sequences, FiniteSets, TLC

\* ------------------------------------------------------------------ bounds
MaxRows == 3
MaxFiles == 2

\* ------------------------------------------------------------- characters
LowerAlphabet == <<"a", "b", "c", "d", "e", "f", "g", "h", "i", "j", "k", "l", "m", "n", "o", "p", "q", "r", "s", "t", "u", "v", "w", "x", "y", "z">>
UpperAlphabet == <<"A", "B", "C", "D", "E", "F", "G", "H", "I", "J", "K", "L", "M", "N", "O", "P", "Q", "R", "S", "T", "U", "V", "W", "X", "Y", "Z">>
DigitChars == <<"0", "1", "2", "3", "4", "5", "6", "7", "8", "9">>

None == <<>>
NoRow == 0 - 1

IsDigit(ch) == \E d \in DOMAIN DigitChars : DigitChars[d] = ch
DigitVal(ch) == (CHOOSE d \in DOMAIN DigitChars : DigitChars[d] = ch) - 1

UpperChar(ch) ==
    IF \E a \in DOMAIN LowerAlphabet : LowerAlphabet[a] = ch
    THEN UpperAlphabet[CHOOSE a \in DOMAIN LowerAlphabet : LowerAlphabet[a] = ch]
    ELSE ch
LowerChar(ch) ==
    IF \E a \in DOMAIN UpperAlphabet : UpperAlphabet[a] = ch
    THEN LowerAlphabet[CHOOSE a \in DOMAIN UpperAlphabet : UpperAlphabet[a] = ch]
    ELSE ch

\* str.upper() and str.lower()
Upper(s) == [x \in DOMAIN s |-> UpperChar(s[x])]
Lower(s) == [x \in DOMAIN s |-> LowerChar(s[x])]

\* the literal lit occupies s from the 1-based position p on
StartsAt(s, p, lit) ==
    /\ p >= 1
    /\ p + Len(lit) - 1 <= Len(s)
    /\ SubSeq(s, p, p + Len(lit) - 1) = lit

\* Python's  sub in s
Contains(s, sub) == \E p \in 1..(Len(s) + 1) : StartsAt(s, p, sub)

\* str.endswith(suffix)
EndsWith(s, suffix) == StartsAt(s, Len(s) - Len(suffix) + 1, suffix)

\* s[p..q] holds only digits (\d{q-p+1} at p)
AllDigits(s, p, q) == /\ p >= 1
                      /\ q <= Len(s)
                      /\ \A x \in p..q : IsDigit(s[x])

\* int() of a string of decimal digits
RECURSIVE DecimalValue(_)
DecimalValue(s) ==
    IF s = <<>> THEN 0
    ELSE DecimalValue(SubSeq(s, 1, Len(s) - 1)) * 10 + DigitVal(s[Len(s)])

\* str() of a non-negative int
RECURSIVE DecimalDigits(_)
DecimalDigits(n) ==
    IF n < 10 THEN <<DigitChars[n + 1]>>
    ELSE Append(DecimalDigits(n \div 10), DigitChars[(n % 10) + 1])

\* str.zfill(2)
ZFill2(s) == IF Len(s) >= 2 THEN s ELSE IF Len(s) = 1 THEN <<"0">> \o s ELSE <<"0", "0">>

\* -------------------------------------------------------- string literals
LitTab == <<"_", "T", "A", "B", "_", "i", "n", "t", "e", "r", "n", "e", "t", "_", "s", "t", "a", "v", "_", "k", "_">>
LitStav == <<"S", "T", "A", "V", "_", "K", "_">>
LitXls == <<"x", "l", "s">>
ExtXls == <<".", "x", "l", "s">>
ExtXlsx == <<".", "x", "l", "s", "x">>
LitSTP == <<"S", "T", "P">>
LitCELKEM == <<"C", "E", "L", "K", "E", "M">>
LitTotal == <<"t", "o", "t", "a", "l">>
RuskaFederace == <<"R", "u", "s", "k", "a", " ", "f", "e", "d", "e", "r", "a", "c", "e">>
Rusko == <<"R", "u", "s", "k", "o">>
Separators == {"-", ".", "_"}

\* --------------------------------------------- extract_date_from_filename
\* pattern1 = (\d{2})[-._](\d{4})_TAB_internet_stav_k_.*\.(xls|xlsx), matched
\* with its first character at position p.  There is no end anchor, so the
\* alternative (xls|xlsx) matches exactly when "xls" follows the dot.
Pattern1At(f, p) ==
    /\ AllDigits(f, p, p + 1)
    /\ p + 2 <= Len(f)
    /\ f[p + 2] \in Separators
    /\ AllDigits(f, p + 3, p + 6)
    /\ StartsAt(f, p + 7, LitTab)
    /\ \E q \in (p + 7 + Len(LitTab))..Len(f) : f[q] = "." /\ StartsAt(f, q + 1, LitXls)

\* pattern2 = STAV_K_\d{1,2}[-._](\d{1,2})[-._](\d{4})\.(xls|xlsx) at p, with
\* d digits of day and m digits of month
Pattern2Shape(f, p, d, m) ==
    LET q == p + Len(LitStav) IN
    /\ StartsAt(f, p, LitStav)
    /\ AllDigits(f, q, q + d - 1)
    /\ q + d <= Len(f)
    /\ f[q + d] \in Separators
    /\ AllDigits(f, q + d + 1, q + d + m)
    /\ q + d + m + 1 <= Len(f)
    /\ f[q + d + m + 1] \in Separators
    /\ AllDigits(f, q + d + m + 2, q + d + m + 5)
    /\ q + d + m + 6 <= Len(f)
    /\ f[q + d + m + 6] = "."
    /\ StartsAt(f, q + d + m + 7, LitXls)

Pattern2At(f, p) == \E d \in 1..2, m \in 1..2 : Pattern2Shape(f, p, d, m)

\* re.search: the leftmost position at which the pattern matches
Search1(f) == {p \in 1..Len(f) : Pattern1At(f, p) /\ \A r \in 1..(p - 1) : ~Pattern1At(f, r)}
Search2(f) == {p \in 1..Len(f) : Pattern2At(f, p) /\ \A r \in 1..(p - 1) : ~Pattern2At(f, r)}

\* match1.group(1), match1.group(2)
Pattern1Month(f, p) == SubSeq(f, p, p + 1)
Pattern1Year(f, p) == SubSeq(f, p + 3, p + 6)

\* mutant of Pattern2Month: the group is put around the day digits
Pattern2MonthDayGroup(f, p) ==
    LET dm == CHOOSE x \in (1..2) \X (1..2) : Pattern2Shape(f, p, x[1], x[2])
        q  == p + Len(LitStav)
    IN SubSeq(f, q, q + dm[1] - 1)

\* match2.group(1): the month digits
Pattern2Month(f, p) ==
    LET dm == CHOOSE x \in (1..2) \X (1..2) : Pattern2Shape(f, p, x[1], x[2])
        q  == p + Len(LitStav)
    IN SubSeq(f, q + dm[1] + 1, q + dm[1] + dm[2])

\* match2.group(2): the year digits
Pattern2Year(f, p) ==
    LET dm == CHOOSE x \in (1..2) \X (1..2) : Pattern2Shape(f, p, x[1], x[2])
        q  == p + Len(LitStav)
    IN SubSeq(f, q + dm[1] + dm[2] + 2, q + dm[1] + dm[2] + 5)

extract_date_from_filename(filename) ==
    IF Search1(filename) # {}
    THEN LET p == CHOOSE x \in Search1(filename) : TRUE
         IN Pattern1Month(filename, p) \o <<".">> \o Pattern1Year(filename, p)
    ELSE IF Search2(filename) # {}
    THEN LET p == CHOOSE x \in Search2(filename) : TRUE
         IN ZFill2(Pattern2Month(filename, p)) \o <<".">> \o Pattern2Year(filename, p)
    ELSE None


\* ------------------------------------------------------------------ cells
\* A cell of the grid pd.read_excel(header=None) returns: NaN for an empty
\* cell, a str, a number, or a datetime (a date-formatted cell).
NaN == [k |-> "nan", s |-> <<>>, n |-> 0]
StrCell(s) == [k |-> "str", s |-> s, n |-> 0]
IntCell(n) == [k |-> "int", s |-> <<>>, n |-> n]
DateCell == [k |-> "date", s |-> <<>>, n |-> 0]

\* pd.notna(cell), pd.isna(cell)
notna(cell) == cell.k # "nan"
isna(cell) == cell.k = "nan"

\* str(cell)
PyStr(cell) ==
    CASE cell.k = "str" -> cell.s
      [] cell.k = "int" -> DecimalDigits(cell.n)
      [] cell.k = "date" -> <<"2", "0", "2", "1", "-", "0", "1", "-", "0", "1", " ", "0", "0", ":", "0", "0", ":", "0", "0">>
      [] OTHER -> <<"n", "a", "n">>

\* the cell's value as a dict key (json.dump writes a non-str key as its str)
CellValue(cell) == IF cell.k = "str" THEN cell.s ELSE PyStr(cell)

\* int(cell): a number converts, a str converts when it is a decimal
\* literal and raises ValueError otherwise, a datetime raises TypeError
IntOutcome(cell) ==
    CASE cell.k = "int" -> "ok"
      [] cell.k = "str" -> IF cell.s # <<>> /\ AllDigits(cell.s, 1, Len(cell.s))
                           THEN "ok" ELSE "ValueError"
      [] OTHER -> "TypeError"
IntValue(cell) == IF cell.k = "int" THEN cell.n ELSE DecimalValue(cell.s)

\* int(0 if pd.isna(v) else v)
CountOutcome(cell) == IF isna(cell) THEN "ok" ELSE IntOutcome(cell)
CountValue(cell) == IF isna(cell) THEN 0 ELSE IntValue(cell)

\* ----------------------------------------------------------- find_stp_row
\* the row with the 0-based index r of a grid
RowAt(df, r) == df[r + 1]

HasSTP(row) == \E c \in DOMAIN row : notna(row[c]) /\ Contains(PyStr(row[c]), LitSTP)

\* mutant of find_stp_row: 0 where None is returned
find_stp_row_zero(df) ==
    IF \E r \in 0..(Len(df) - 1) : HasSTP(RowAt(df, r))
    THEN (CHOOSE r \in 0..(Len(df) - 1) :
              /\ HasSTP(RowAt(df, r))
              /\ \A q \in 0..(r - 1) : ~HasSTP(RowAt(df, q))) + 1
    ELSE 0

find_stp_row(df) ==
    IF \E r \in 0..(Len(df) - 1) : HasSTP(RowAt(df, r))
    THEN (CHOOSE r \in 0..(Len(df) - 1) :
              /\ HasSTP(RowAt(df, r))
              /\ \A q \in 0..(r - 1) : ~HasSTP(RowAt(df, q))) + 1
    ELSE NoRow

\* ------------------------------------------------ deduplicate_country_names
deduplicate_country_names(country) ==
    IF country = RuskaFederace THEN Rusko ELSE country

\* ------------------------------------------------------- parse_excel_file
\* data = df.iloc[stp_row+1:].reset_index(drop=True)
SliceData(df, stp) == SubSeq(df, stp + 2, Len(df))

\* the 0-based index in df of the row with the 0-based index j of data
DfIndex(stp, j) == stp + 1 + j

\* columns[:2] + columns[-3:] of a grid n columns wide (1-based positions)
SelectedColumns(n) == <<1, 2, n - 2, n - 1, n>>
SelectRow(row) == [c \in 1..5 |-> row[SelectedColumns(Len(row))[c]]]

\* pd.notna(row[0]) and "CELKEM" in str(row[0]).upper()
IsSentinel(row) == notna(row[1]) /\ Contains(Upper(PyStr(row[1])), LitCELKEM)

\* mutant of NextCountry: the group is taken only from a row that has a category
NextCountryIfCategory(row, cc) ==
    IF notna(row[1]) /\ notna(row[2])
    THEN deduplicate_country_names(CellValue(row[1])) ELSE cc

\* current_country after lines 85-86
NextCountry(row, cc) ==
    IF notna(row[1]) THEN deduplicate_country_names(CellValue(row[1])) ELSE cc

\* line 89: the row is skipped
NoCountryOrType(row, cc) == NextCountry(row, cc) = None \/ isna(row[2])

\* the exception lines 96-98 raise: the cells convert in the order muzi,
\* zeny, celkem and the first failure is the one raised
CountsOutcome(row) ==
    IF CountOutcome(row[3]) # "ok" THEN CountOutcome(row[3])
    ELSE IF CountOutcome(row[4]) # "ok" THEN CountOutcome(row[4])
    ELSE CountOutcome(row[5])

residence_type(row) == Lower(PyStr(row[2]))

count_data(row) == [muzi   |-> CountValue(row[3]),
                    zeny   |-> CountValue(row[4]),
                    celkem |-> CountValue(row[5])]

\* mutant of RowKind: the end marker is looked for without .upper()
RowKindNoUpper(row, cc) ==
    IF notna(row[1]) /\ Contains(PyStr(row[1]), LitCELKEM) THEN "break"
    ELSE IF NoCountryOrType(row, cc) THEN "skip"
    ELSE IF CountsOutcome(row) = "ok" THEN "emit"
    ELSE CountsOutcome(row)

\* what one iteration of the loop of lines 77-111 does with a row
RowKind(row, cc) ==
    IF IsSentinel(row) THEN "break"
    ELSE IF NoCountryOrType(row, cc) THEN "skip"
    ELSE IF CountsOutcome(row) = "ok" THEN "emit"
    ELSE CountsOutcome(row)

\* ------------------------------------------------------------------ dicts
\* A dict whose key order no statement reads is a function; the dict of the
\* periods of a group, whose order the emitted files show, is a record of
\* its keys in insertion order and its entries.
Put(f, key, v) == [x \in DOMAIN f \cup {key} |-> IF x = key THEN v ELSE f[x]]
EmptyDict == <<>>
EmptyDates == [keys |-> <<>>, at |-> <<>>]
HasDate(dd, date) == date \in DOMAIN dd.at
PutDate(dd, date, v) ==
    [keys |-> IF HasDate(dd, date) THEN dd.keys ELSE Append(dd.keys, date),
     at   |-> Put(dd.at, date, v)]

\* lines 102-107
EmitRecord(fd, country, date, rt, cd) ==
    LET fd1 == IF country \notin DOMAIN fd
               THEN Put(fd, country, PutDate(EmptyDates, date, EmptyDict))
               ELSE IF ~HasDate(fd[country], date)
               THEN Put(fd, country, PutDate(fd[country], date, EmptyDict))
               ELSE fd
    IN Put(fd1, country, PutDate(fd1[country], date, Put(fd1[country].at[date], rt, cd)))

\* -------------------------------------------------------------------- main
\* line 140: file.endswith(('.xls', '.xlsx'))
IsExcelName(file) == EndsWith(file, ExtXls) \/ EndsWith(file, ExtXlsx)

RECURSIVE FilterExcel(_)
FilterExcel(names) ==
    IF names = <<>> THEN <<>>
    ELSE IF IsExcelName(Head(names)) THEN <<Head(names)>> \o FilterExcel(Tail(names))
    ELSE FilterExcel(Tail(names))

\* mutant of UpdateEntry: an entry already present is kept
UpdateEntryKeepOld(old, new) ==
    [rt \in DOMAIN old \cup DOMAIN new |-> IF rt \in DOMAIN old THEN old[rt] ELSE new[rt]]

\* mutant of UpdateEntry: the entry of the date is replaced, not updated
UpdateEntryReplace(old, new) == new

\* line 157: parsed_data[country][date].update(date_data)
UpdateEntry(old, new) ==
    [rt \in DOMAIN old \cup DOMAIN new |-> IF rt \in DOMAIN new THEN new[rt] ELSE old[rt]]

\* lines 154-157 for one country, the dates of the file taken in their order
RECURSIVE MergeDates(_, _, _)
MergeDates(target, country_data, n) ==
    IF n > Len(country_data.keys) THEN target
    ELSE LET date == country_data.keys[n]
             base == IF HasDate(target, date) THEN target
                     ELSE PutDate(target, date, EmptyDict)
         IN MergeDates(PutDate(base, date, UpdateEntry(base.at[date], country_data.at[date])),
                       country_data, n + 1)

\* lines 153-157: parsed_data is a defaultdict(dict)
MergeFile(pdata, fdata) ==
    [country \in DOMAIN pdata \cup DOMAIN fdata |->
        IF country \in DOMAIN fdata
        THEN MergeDates(IF country \in DOMAIN pdata THEN pdata[country] ELSE EmptyDates,
                        fdata[country], 1)
        ELSE pdata[country]]

\* ------------------------------------------------------- calculate_totals
\* lines 126-130: the sum of one field over the residence types in rts
RECURSIVE SumField(_, _, _)
SumField(date_data, rts, field) ==
    IF rts = {} THEN 0
    ELSE LET rt == CHOOSE x \in rts : TRUE
         IN date_data[rt][field] + SumField(date_data, rts \ {rt}, field)

\* lines 120-132 for one (country, date)
TotalsOfEntry(date_data) ==
    IF LitTotal \in DOMAIN date_data THEN date_data
    ELSE Put(date_data, LitTotal,
             [muzi   |-> SumField(date_data, DOMAIN date_data, "muzi"),
              zeny   |-> SumField(date_data, DOMAIN date_data, "zeny"),
              celkem |-> SumField(date_data, DOMAIN date_data, "celkem")])

calculate_totals(pdata) ==
    [country \in DOMAIN pdata |->
        [keys |-> pdata[country].keys,
         at   |-> [date \in DOMAIN pdata[country].at |-> TotalsOfEntry(pdata[country].at[date])]]]

\* ------------------------------------------------------------ sort (165-173)
\* x.split('.')
RECURSIVE SplitDot(_)
SplitDot(x) ==
    IF \E p \in DOMAIN x : x[p] = "."
    THEN LET p == CHOOSE q \in DOMAIN x : x[q] = "." /\ \A r \in 1..(q - 1) : x[r] # "."
         IN <<SubSeq(x, 1, p - 1)>> \o SplitDot(SubSeq(x, p + 1, Len(x)))
    ELSE <<x>>

\* mutant of SortKey: the month before the year
SortKeyMonthFirst(x) == <<DecimalValue(SplitDot(x)[1]), DecimalValue(SplitDot(x)[2])>>

\* key=lambda x: (int(x.split('.')[1]), int(x.split('.')[0]))
SortKey(x) == <<DecimalValue(SplitDot(x)[2]), DecimalValue(SplitDot(x)[1])>>

\* tuple comparison a <= b
KeyLeq(a, b) == a[1] < b[1] \/ (a[1] = b[1] /\ a[2] <= b[2])

\* x put into the sorted sequence acc behind every element not greater than it
InsertSorted(acc, x) ==
    LET n == Cardinality({q \in DOMAIN acc : KeyLeq(SortKey(acc[q]), SortKey(x))})
    IN SubSeq(acc, 1, n) \o <<x>> \o SubSeq(acc, n + 1, Len(acc))

\* sorted(country_data.keys(), key=...): stable
RECURSIVE SortedDates(_)
SortedDates(keys) ==
    IF keys = <<>> THEN <<>>
    ELSE InsertSorted(SortedDates(SubSeq(keys, 1, Len(keys) - 1)), keys[Len(keys)])

SortData(pdata) ==
    [country \in DOMAIN pdata |->
        [keys |-> SortedDates(pdata[country].keys), at |-> pdata[country].at]]

\* main, lines 149-173, for the per-file outputs outs taken in their order
RECURSIVE MergeAll(_, _)
MergeAll(outs, n) ==
    IF n = 0 THEN EmptyDict ELSE MergeFile(MergeAll(outs, n - 1), outs[n])

EmittedFor(outs) == SortData(calculate_totals(MergeAll(outs, Len(outs))))

\* ----------------------------------------------------------------- inputs
\* File names of ./source.
FileTab012021 == <<"0", "1", "-", "2", "0", "2", "1", "_", "T", "A", "B", "_", "i", "n", "t", "e", "r", "n", "e", "t", "_", "s", "t", "a", "v", "_", "k", "_", "x", ".", "x", "l", "s", "x">>
FileStav122021 == <<"S", "T", "A", "V", "_", "K", "_", "1", "-", "2", "-", "2", "0", "2", "1", ".", "x", "l", "s", "x">>
FileStav1512021 == <<"S", "T", "A", "V", "_", "K", "_", "1", "5", ".", "1", ".", "2", "0", "2", "1", ".", "x", "l", "s">>
FileTab102019 == <<"1", "0", ".", "2", "0", "1", "9", "_", "T", "A", "B", "_", "i", "n", "t", "e", "r", "n", "e", "t", "_", "s", "t", "a", "v", "_", "k", "_", ".", "x", "l", "s">>
FileRandom == <<"r", "a", "n", "d", "o", "m", "_", "n", "a", "m", "e", ".", "x", "l", "s", "x">>
FileNotes == <<"n", "o", "t", "e", "s", ".", "t", "x", "t">>

\* Cell texts.
Polsko == <<"P", "o", "l", "s", "k", "o">>
CellTrvaly == <<"T", "r", "v", "a", "l", "y">>
CellPrechodny == <<"P", "r", "e", "c", "h", "o", "d", "n", "y">>
CellTotal == <<"T", "o", "t", "a", "l">>
CellCelkem == <<"C", "e", "l", "k", "e", "m">>
CellStp == <<"S", "T", "P", "_", "c", "e", "l", "k", "e", "m">>
CellAbc == <<"a", "b", "c">>

\* Rows of a grid six columns wide: group, category, a column the parser
\* drops, muzi, zeny, celkem.
AnchorRow == <<NaN, NaN, StrCell(CellStp), NaN, NaN, NaN>>
RowPolsko == <<StrCell(Polsko), StrCell(CellPrechodny), NaN, IntCell(5), IntCell(3), IntCell(8)>>
RowCarry == <<NaN, StrCell(CellTrvaly), IntCell(7), IntCell(2), NaN, IntCell(2)>>
RowGroupOnly == <<StrCell(Polsko), NaN, NaN, NaN, NaN, NaN>>
RowBad == <<StrCell(RuskaFederace), StrCell(CellTrvaly), NaN, StrCell(CellAbc), IntCell(1), IntCell(1)>>
RowSentinel == <<StrCell(CellCelkem), StrCell(CellTrvaly), NaN, IntCell(9), IntCell(9), IntCell(9)>>
RowDate == <<NaN, StrCell(CellTrvaly), NaN, IntCell(1), DateCell, IntCell(1)>>
RowRuskoTrvaly == <<StrCell(Rusko), StrCell(CellTrvaly), NaN, IntCell(5), IntCell(3), IntCell(8)>>
RowRuskoPrechodny == <<StrCell(Rusko), StrCell(CellPrechodny), NaN, IntCell(2), IntCell(1), IntCell(3)>>
RowRuskaText == <<StrCell(RuskaFederace), StrCell(CellTrvaly), NaN, StrCell(<<"4">>), NaN, IntCell(4)>>
RowTotal == <<NaN, StrCell(CellTotal), NaN, IntCell(1), IntCell(1), IntCell(2)>>

RowSet == {AnchorRow, RowPolsko, RowCarry, RowGroupOnly, RowBad, RowSentinel, RowDate}

SeqsUpTo(S, n) == UNION {[1..m -> S] : m \in 0..n}

\* What pd.read_excel finds for a file: a grid, or a failure to read.
Readable(grid) == [readable |-> TRUE, grid |-> grid]
Unreadable == [readable |-> FALSE, grid |-> <<>>]

GridNoAnchor == <<RowGroupOnly, RowPolsko>>
GridEmpty == <<AnchorRow, RowPolsko>>
GridTrvaly == <<AnchorRow, RowGroupOnly, RowRuskoTrvaly>>
GridPrechodny == <<RowGroupOnly, AnchorRow, RowGroupOnly, RowRuskoPrechodny>>
GridMixed == <<AnchorRow, RowGroupOnly, RowRuskaText, RowTotal, RowGroupOnly, RowBad,
               RowRuskoPrechodny, RowCarry, RowSentinel, RowPolsko>>
GridPolsko == <<AnchorRow, AnchorRow, RowPolsko, RowCarry>>
GridDate == <<AnchorRow, RowGroupOnly, RowPolsko, RowDate>>

MainContents == {Unreadable, Readable(GridNoAnchor), Readable(GridEmpty), Readable(GridTrvaly),
                 Readable(GridPrechodny), Readable(GridMixed), Readable(GridPolsko),
                 Readable(GridDate)}

MainNames == {FileTab012021, FileStav122021, FileStav1512021, FileTab102019, FileRandom}

Range(q) == {q[x] : x \in DOMAIN q}

\* os.listdir: names without repetition, in any order
Listings(names, n) == {q \in SeqsUpTo(names, n) : \A x, y \in DOMAIN q : q[x] = q[y] => x = y}

\* the names of a listing that parse_excel_file goes on to read
ReadNames(q) == {nm \in Range(q) : IsExcelName(nm) /\ extract_date_from_filename(nm) # None}

\* ------------------------------------------------------------------ state
VARIABLES
    listing,          \* os.listdir("./source")
    source,           \* what pd.read_excel returns for each file it is given
    xlsx_files,       \* main: the filtered listing
    i,                \* main: the number of files of xlsx_files processed
    parsed_data,      \* main: the accumulating dataset
    sorted_data,      \* main: the dataset written to the two json files
    pc,               \* the position of the program
    date,             \* parse_excel_file: the period label of the file
    df,               \* parse_excel_file: the grid read
    stp_row,          \* parse_excel_file: the result of find_stp_row
    data,             \* parse_excel_file: the rows below the header
    k,                \* parse_excel_file: the 0-based index in data of the next row
    current_country,  \* parse_excel_file: the carry-forward group
    file_data,        \* parse_excel_file: the per-file output
    ret,              \* parse_excel_file: the return statement taken
    origin,           \* history: the df row each record of file_data was made from
    history           \* history: file, return path and output of each call so far

vars == <<listing, source, xlsx_files, i, parsed_data, sorted_data, pc, date, df, stp_row,
          data, k, current_country, file_data, ret, origin, history>>

locals == <<date, df, stp_row, data, k, current_country, file_data, ret, origin>>
mainvars == <<xlsx_files, i, parsed_data, sorted_data, history>>
inputs == <<listing, source>>

file == xlsx_files[i + 1]

Start ==
    /\ xlsx_files = <<>>
    /\ i = 0
    /\ parsed_data = EmptyDict
    /\ sorted_data = EmptyDict
    /\ pc = "main"
    /\ date = None
    /\ df = <<>>
    /\ stp_row = NoRow
    /\ data = <<>>
    /\ k = 0
    /\ current_country = None
    /\ file_data = EmptyDict
    /\ ret = "none"
    /\ origin = EmptyDict
    /\ history = <<>>

\* a batch of up to MaxFiles files
Init ==
    /\ listing \in Listings(MainNames, MaxFiles)
    /\ source \in [ReadNames(listing) -> MainContents]
    /\ Start

\* the rows a grid opens with: none, or a header that holds the anchor row
Heads == {<<>>, <<AnchorRow>>, <<AnchorRow, RowPolsko>>, <<AnchorRow, RowSentinel>>,
          <<AnchorRow, AnchorRow>>, <<RowSentinel, AnchorRow, RowGroupOnly>>}

\* one file, whose grid is a head followed by any sequence of up to MaxRows
\* rows of RowSet
InitParse ==
    /\ \/ /\ listing = <<FileTab012021>>
          /\ source \in [{FileTab012021} ->
                            {Readable(h \o g) : h \in Heads, g \in SeqsUpTo(RowSet, MaxRows)}
                                \cup {Unreadable}]
       \/ /\ listing \in {<<FileRandom>>, <<FileNotes>>}
          /\ source = <<>>
    /\ Start

\* ---------------------------------------------------------------- actions
\* main, lines 140-146
ListFiles ==
    /\ pc = "main"
    /\ xlsx_files' = FilterExcel(listing)
    /\ pc' = IF FilterExcel(listing) = <<>> THEN "no_files" ELSE "loop"
    /\ UNCHANGED <<i, parsed_data, sorted_data, history>>
    /\ UNCHANGED <<locals, inputs>>

\* main, lines 149-150: the call of parse_excel_file(file), with fresh locals
CallParse ==
    /\ pc = "loop"
    /\ i < Len(xlsx_files)
    /\ pc' = "extract"
    /\ date' = None
    /\ df' = <<>>
    /\ stp_row' = NoRow
    /\ data' = <<>>
    /\ k' = 0
    /\ current_country' = None
    /\ file_data' = EmptyDict
    /\ ret' = "none"
    /\ origin' = EmptyDict
    /\ UNCHANGED <<mainvars, inputs>>

\* parse_excel_file, lines 44-47
ExtractDate ==
    /\ pc = "extract"
    /\ date' = extract_date_from_filename(file)
    /\ IF extract_date_from_filename(file) = None
       THEN pc' = "merge" /\ ret' = "unrecognized"
       ELSE pc' = "read" /\ ret' = ret
    /\ UNCHANGED <<df, stp_row, data, k, current_country, file_data, origin>>
    /\ UNCHANGED <<mainvars, inputs>>

\* parse_excel_file, lines 52-56
ReadExcel ==
    /\ pc = "read"
    /\ IF source[file].readable
       THEN df' = source[file].grid /\ pc' = "find" /\ ret' = ret
       ELSE df' = df /\ pc' = "merge" /\ ret' = "unreadable"
    /\ UNCHANGED <<date, stp_row, data, k, current_country, file_data, origin>>
    /\ UNCHANGED <<mainvars, inputs>>

\* parse_excel_file, lines 58-61
FindStp ==
    /\ pc = "find"
    /\ stp_row' = find_stp_row(df)
    /\ IF find_stp_row(df) = NoRow
       THEN pc' = "merge" /\ ret' = "no_anchor"
       ELSE pc' = "slice" /\ ret' = ret
    /\ UNCHANGED <<date, df, data, k, current_country, file_data, origin>>
    /\ UNCHANGED <<mainvars, inputs>>

\* parse_excel_file, lines 64-74
Slice ==
    /\ pc = "slice"
    /\ data' = SliceData(df, stp_row)
    /\ IF SliceData(df, stp_row) = <<>>
       THEN pc' = "merge" /\ ret' = "empty"
       ELSE pc' = "rows" /\ ret' = ret
    /\ UNCHANGED <<date, df, stp_row, k, current_country, file_data, origin>>
    /\ UNCHANGED <<mainvars, inputs>>

\* the row the loop of line 77 is at, reduced to the five selected columns
row == SelectRow(data[k + 1])

\* lines 79-80: the end marker, and the return of line 113
RowBreak ==
    /\ pc = "rows"
    /\ k < Len(data)
    /\ RowKind(row, current_country) = "break"
    /\ pc' = "merge"
    /\ ret' = "parsed"
    /\ UNCHANGED <<date, df, stp_row, data, k, current_country, file_data, origin>>
    /\ UNCHANGED <<mainvars, inputs>>

\* lines 85-90: a row without a group or without a category
RowSkip ==
    /\ pc = "rows"
    /\ k < Len(data)
    /\ RowKind(row, current_country) = "skip"
    /\ current_country' = NextCountry(row, current_country)
    /\ k' = k + 1
    /\ UNCHANGED <<pc, date, df, stp_row, data, file_data, ret, origin>>
    /\ UNCHANGED <<mainvars, inputs>>

\* lines 85-107: a record is stored
RowEmit ==
    /\ pc = "rows"
    /\ k < Len(data)
    /\ RowKind(row, current_country) = "emit"
    /\ current_country' = NextCountry(row, current_country)
    /\ file_data' = EmitRecord(file_data, NextCountry(row, current_country), date,
                               residence_type(row), count_data(row))
    /\ origin' = Put(origin, <<NextCountry(row, current_country), residence_type(row)>>,
                     DfIndex(stp_row, k))
    /\ k' = k + 1
    /\ UNCHANGED <<pc, date, df, stp_row, data, ret>>
    /\ UNCHANGED <<mainvars, inputs>>

\* lines 85-111: int() raises ValueError, which line 109 catches
RowValueError ==
    /\ pc = "rows"
    /\ k < Len(data)
    /\ RowKind(row, current_country) = "ValueError"
    /\ current_country' = NextCountry(row, current_country)
    /\ k' = k + 1
    /\ UNCHANGED <<pc, date, df, stp_row, data, file_data, ret, origin>>
    /\ UNCHANGED <<mainvars, inputs>>

\* lines 85-98: int() raises TypeError, which line 109 does not catch; the
\* exception leaves parse_excel_file and main
RowTypeError ==
    /\ pc = "rows"
    /\ k < Len(data)
    /\ RowKind(row, current_country) = "TypeError"
    /\ current_country' = NextCountry(row, current_country)
    /\ pc' = "crashed"
    /\ UNCHANGED <<date, df, stp_row, data, k, file_data, ret, origin>>
    /\ UNCHANGED <<mainvars, inputs>>

\* the loop of line 77 is exhausted: the return of line 113
RowsEnd ==
    /\ pc = "rows"
    /\ k = Len(data)
    /\ pc' = "merge"
    /\ ret' = "parsed"
    /\ UNCHANGED <<date, df, stp_row, data, k, current_country, file_data, origin>>
    /\ UNCHANGED <<mainvars, inputs>>

\* main, lines 150-157: the returned file_data is merged
Merge ==
    /\ pc = "merge"
    /\ parsed_data' = MergeFile(parsed_data, file_data)
    /\ history' = Append(history, [file |-> file, ret |-> ret, out |-> file_data])
    /\ i' = i + 1
    /\ pc' = "loop"
    /\ UNCHANGED <<xlsx_files, sorted_data>>
    /\ UNCHANGED <<locals, inputs>>

\* main, lines 160-163
CalculateTotals ==
    /\ pc = "loop"
    /\ i = Len(xlsx_files)
    /\ parsed_data' = calculate_totals(parsed_data)
    /\ pc' = "sort"
    /\ UNCHANGED <<xlsx_files, i, sorted_data, history>>
    /\ UNCHANGED <<locals, inputs>>

\* main, lines 166-182: the dates are sorted and the dataset is written
SortAndSave ==
    /\ pc = "sort"
    /\ sorted_data' = SortData(parsed_data)
    /\ pc' = "done"
    /\ UNCHANGED <<xlsx_files, i, parsed_data, history>>
    /\ UNCHANGED <<locals, inputs>>

Next ==
    \/ ListFiles
    \/ CallParse
    \/ ExtractDate
    \/ ReadExcel
    \/ FindStp
    \/ Slice
    \/ RowBreak
    \/ RowSkip
    \/ RowEmit
    \/ RowValueError
    \/ RowTypeError
    \/ RowsEnd
    \/ Merge
    \/ CalculateTotals
    \/ SortAndSave

Spec == Init /\ [][Next]_vars
SpecParse == InitParse /\ [][Next]_vars

\* ======================================================================
\* Properties
\* ======================================================================
Fields == {"muzi", "zeny", "celkem"}

\* the value of a dataset, as Python's == of dicts compares it: without the
\* order of the keys
Value(ds) == [g \in DOMAIN ds |-> ds[g].at]

\* the (group, period, category) keys of a dataset
Keys(ds) == {key \in UNION {UNION {{<<g, p, c>> : c \in DOMAIN ds[g].at[p]} :
                                       p \in DOMAIN ds[g].at} : g \in DOMAIN ds} : TRUE}

RecordAt(ds, key) == ds[key[1]].at[key[2]][key[3]]

\* the five selected cells of the row with index r of the grid read
GridRow(r) == SelectRow(RowAt(df, r))

\* the rows of the grid that hold an 'STP' cell
AnchorRows == {r \in 0..(Len(df) - 1) : HasSTP(RowAt(df, r))}
FirstAnchor == CHOOSE a \in AnchorRows : \A b \in AnchorRows : a <= b

\* non-empty group and category cells, count cells numeric or empty, first
\* cell not containing CELKEM
AdmissibleRow(r) ==
    /\ notna(r[1])
    /\ notna(r[2])
    /\ \A c \in 3..5 : isna(r[c]) \/ IntOutcome(r[c]) = "ok"
    /\ ~Contains(Upper(PyStr(r[1])), LitCELKEM)

\* C1: in the emitted dataset, for every (group, period) and each of the
\* fields muzi, zeny, celkem, the value under "total" is the sum of the field
\* over the categories other than "total", whatever the input rows hold.
C1_TotalIsSumOfOthers ==
    pc = "done" =>
        \A g \in DOMAIN sorted_data : \A p \in DOMAIN sorted_data[g].at :
            LET entry == sorted_data[g].at[p] IN
            /\ LitTotal \in DOMAIN entry
            /\ \A f \in Fields :
                   entry[LitTotal][f] = SumField(entry, DOMAIN entry \ {LitTotal}, f)

\* C2: when the first row with an 'STP' cell has index a, find_stp_row returns
\* a+1 and the rows are iterated from that offset, so that an admissible row
\* at index a+1 has a record in the per-file output.
C2_DataBeginsAfterAnchor ==
    (pc = "merge" /\ AnchorRows # {}) =>
        /\ stp_row = FirstAnchor + 1
        /\ (FirstAnchor + 1 < Len(df) /\ AdmissibleRow(GridRow(FirstAnchor + 1))) =>
               LET r == GridRow(FirstAnchor + 1)
                   country == deduplicate_country_names(CellValue(r[1]))
               IN /\ country \in DOMAIN file_data
                  /\ \E d \in DOMAIN file_data[country].at :
                         Lower(PyStr(r[2])) \in DOMAIN file_data[country].at[d]

\* C6: a row that has a group and a category and one of whose count cells
\* holds content int() cannot convert emits no record, leaves the per-file
\* output as it was, and the loop goes on to the next row without the parse
\* or the batch aborting; an empty count cell is recorded as 0.
C6_CoercionFailureIsLocal ==
    [][(/\ pc = "rows"
        /\ k < Len(data)
        /\ ~IsSentinel(row)
        /\ ~NoCountryOrType(row, current_country))
       => /\ (\E c \in 3..5 : notna(row[c]) /\ IntOutcome(row[c]) # "ok") =>
                 (pc' = "rows" /\ k' = k + 1 /\ file_data' = file_data)
          /\ (\A c \in 3..5 : isna(row[c]) \/ IntOutcome(row[c]) = "ok") =>
                 LET rec == file_data'[current_country'].at[date][residence_type(row)] IN
                 /\ isna(row[3]) => rec.muzi = 0
                 /\ isna(row[4]) => rec.zeny = 0
                 /\ isna(row[5]) => rec.celkem = 0]_vars

\* ---------------------------------------------------------------------- C3
P012021 == <<"0", "1", ".", "2", "0", "2", "1">>
P022021 == <<"0", "2", ".", "2", "0", "2", "1">>
trvaly == <<"t", "r", "v", "a", "l", "y">>
prechodny == <<"p", "r", "e", "c", "h", "o", "d", "n", "y">>

Counts(m, z, c) == [muzi |-> m, zeny |-> z, celkem |-> c]

\* the per-file output holds one record: group g, category c, record rec
Contributes(out, g, c, rec) ==
    /\ DOMAIN out = {g}
    /\ Len(out[g].keys) = 1
    /\ out[g].at[out[g].keys[1]] = [x \in {c} |-> rec]

\* the batch of the two files of the scenario, in either order, has run
C3_Scenario ==
    /\ pc = "done"
    /\ Len(xlsx_files) = 2
    /\ Range(xlsx_files) = {FileTab012021, FileStav122021}
    /\ \A n \in DOMAIN history :
           /\ history[n].file = FileTab012021 =>
                  Contributes(history[n].out, Rusko, trvaly, Counts(5, 3, 8))
           /\ history[n].file = FileStav122021 =>
                  Contributes(history[n].out, Rusko, prechodny, Counts(2, 1, 3))

\* C3 as stated: both records are filed under ("Rusko", "01.2021") and the
\* emitted dataset is {"Rusko": {"01.2021": {trvaly, prechodny, total 7/4/11}}}.
C3_MergedUnderOnePeriod ==
    C3_Scenario =>
        Value(sorted_data) =
            [g \in {Rusko} |->
                [p \in {P012021} |->
                    [c \in {trvaly, prechodny, LitTotal} |->
                        IF c = trvaly THEN Counts(5, 3, 8)
                        ELSE IF c = prechodny THEN Counts(2, 1, 3)
                        ELSE Counts(7, 4, 11)]]]

\* C3 amended: STAV_K_1-2-2021.xlsx is day 1 of month 2, so its record is
\* filed under ("Rusko", "02.2021"); the emitted dataset is {"Rusko":
\* {"01.2021": {trvaly 5/3/8, total 5/3/8}, "02.2021": {prechodny 2/1/3,
\* total 2/1/3}}}, the periods in that order, whichever file is processed first.
C3_FiledUnderTwoPeriods ==
    C3_Scenario =>
        /\ sorted_data[Rusko].keys = <<P012021, P022021>>
        /\ Value(sorted_data) =
               [g \in {Rusko} |->
                   [p \in {P012021, P022021} |->
                       IF p = P012021
                       THEN [c \in {trvaly, LitTotal} |-> Counts(5, 3, 8)]
                       ELSE [c \in {prechodny, LitTotal} |-> Counts(2, 1, 3)]]]

\* ------------------------------------------------------------ C4 and C5
\* The data region is the part of the grid the loop of line 77 iterates: the
\* rows of df from the index stp_row+1 on.  Its rows are numbered from 0.
DataLen == Len(df) - (stp_row + 1)
DataRow(j) == GridRow(DfIndex(stp_row, j))

\* a per-file output exists or is being built
Parsing == pc = "rows" \/ (pc = "merge" /\ ret = "parsed")

Max(S) == CHOOSE x \in S : \A y \in S : y <= x
Min(S) == CHOOSE x \in S : \A y \in S : x <= y

\* the group of row j of the data region: the synonym of the nearest group
\* cell that is not empty, at or before j; None when there is none
GroupCells(j) == {q \in 0..j : notna(DataRow(q)[1])}
GroupAt(j) ==
    IF GroupCells(j) = {} THEN None
    ELSE LET name == CellValue(DataRow(Max(GroupCells(j)))[1])
         IN IF name = RuskaFederace THEN Rusko ELSE name

\* row j of the data region is admissible: it has a group, a category and
\* count cells that are numbers, decimal literals or empty
Emits(j) ==
    /\ GroupAt(j) # None
    /\ notna(DataRow(j)[2])
    /\ \A c \in 3..5 : isna(DataRow(j)[c]) \/ IntOutcome(DataRow(j)[c]) = "ok"
KeyOf(j) == <<GroupAt(j), Lower(PyStr(DataRow(j)[2]))>>

\* the (group, category) keys of the per-file output
FileKeys == UNION {UNION {{<<g, c>> : c \in DOMAIN file_data[g].at[p]} :
                              p \in DOMAIN file_data[g].at} : g \in DOMAIN file_data}

\* the df index of the first row of the grid, and of the data region, whose
\* first cell, uppercased, contains CELKEM; Len(df) when there is none
SentinelsInGrid == {r \in 0..(Len(df) - 1) : IsSentinel(GridRow(r))}
SentinelsInData == {r \in (stp_row + 1)..(Len(df) - 1) : IsSentinel(GridRow(r))}
FirstOr(S, none) == IF S = {} THEN none ELSE Min(S)

\* the sentinel statement, for s the df index of the row taken as sentinel
SentinelClaim(s) ==
    LET sj    == s - (stp_row + 1)
        limit == IF pc = "rows" /\ k < sj THEN k ELSE IF sj < DataLen THEN sj ELSE DataLen
    IN
    \* no record originates from a row at or after the sentinel
    /\ \A key \in DOMAIN origin : origin[key] < s
    \* the sentinel row ends the loop and leaves the carry-forward group
    /\ (pc = "merge" /\ s < Len(df)) =>
           /\ k = sj
           /\ current_country = IF sj >= 1 THEN GroupAt(sj - 1) ELSE None
    \* every admissible row before it is emitted
    /\ \A j \in 0..(limit - 1) :
           Emits(j) =>
               LET last == Max({q \in 0..(limit - 1) : Emits(q) /\ KeyOf(q) = KeyOf(j)}) IN
               /\ KeyOf(j) \in DOMAIN origin
               /\ origin[KeyOf(j)] = DfIndex(stp_row, last)
               /\ file_data[KeyOf(j)[1]].at[date][KeyOf(j)[2]] = count_data(DataRow(last))

\* C4 as stated: the sentinel is the first row of the grid whose first cell,
\* uppercased, contains CELKEM; no record originates at or after it, it emits
\* nothing and leaves the group, every admissible row before it is emitted.
C4_SentinelOfGrid == Parsing => SentinelClaim(FirstOr(SentinelsInGrid, Len(df)))

\* C4 amended: the sentinel is the first such row of the data region (the rows
\* the loop iterates, from index stp_row+1 on); a row with CELKEM in its first
\* cell in the header above the data region does not end anything.
C4_SentinelOfDataRegion == Parsing => SentinelClaim(FirstOr(SentinelsInData, Len(df)))

\* a parse that stopped at a sentinel row, with an admissible row emitted
\* before it and an admissible row left unread behind it
C4_StoppedAtSentinel ==
    /\ pc = "merge"
    /\ ret = "parsed"
    /\ SentinelsInData # {}
    /\ origin # EmptyDict
    /\ \E r \in (Min(SentinelsInData) + 1)..(Len(df) - 1) : AdmissibleRow(GridRow(r))

\* C5: every record of the per-file output is filed under the group of the
\* nearest row at or before its own whose group cell is not empty, passed
\* through the synonym table; no record comes from a row before any group;
\* the carry-forward group follows every row with a group cell, whether or
\* not the row emitted a record.
C5_CarryForward ==
    (Parsing \/ pc = "crashed") =>
        /\ DOMAIN origin = FileKeys
        /\ \A key \in DOMAIN origin :
               LET j == origin[key] - (stp_row + 1) IN
               /\ j >= 0
               /\ GroupAt(j) # None
               /\ key[1] = GroupAt(j)
        /\ pc = "rows" => current_country = IF k = 0 THEN None ELSE GroupAt(k - 1)
        /\ pc = "crashed" => current_country = GroupAt(k)

\* a record made from a row with an empty group cell, filed under "Rusko":
\* the group came from a "Ruska federace" row above it
C5_FiledUnderSynonym ==
    /\ pc = "merge"
    /\ ret = "parsed"
    /\ \E key \in DOMAIN origin : isna(GridRow(origin[key])[1]) /\ key[1] = Rusko

\* ---------------------------------------------------------------------- C7
\* the file is one parse_excel_file gives up on: its name is not recognized,
\* it cannot be read, its grid has no row with an 'STP' cell, or no row
\* follows the header
SkippedFile(nm) ==
    \/ extract_date_from_filename(nm) = None
    \/ ~source[nm].readable
    \/ LET grid    == source[nm].grid
           anchors == {r \in 0..(Len(grid) - 1) : HasSTP(RowAt(grid, r))}
       IN anchors = {} \/ Min(anchors) + 2 >= Len(grid)

\* the outputs of the calls so far, without those of the skipped files
RECURSIVE KeptOutputs(_)
KeptOutputs(h) ==
    IF h = <<>> THEN <<>>
    ELSE IF SkippedFile(Head(h).file) THEN KeptOutputs(Tail(h))
    ELSE <<Head(h).out>> \o KeptOutputs(Tail(h))

\* C7: a skipped file never has its rows iterated and never aborts the
\* batch; merging it leaves the accumulating dataset unchanged and main goes
\* on to the next file; the dataset emitted is the one the batch without the
\* skipped files gives.
C7_SkipAndContinue ==
    /\ [](pc \in {"rows", "crashed"} => ~SkippedFile(file))
    /\ [][(pc = "merge" /\ SkippedFile(file))
             => (parsed_data' = parsed_data /\ pc' = "loop" /\ i' = i + 1)]_vars
    /\ [](pc = "done" => sorted_data = EmittedFor(KeptOutputs(history)))

\* a batch that has run, in which a skipped file followed a file with records
C7_SkippedAfterRecords ==
    /\ pc = "done"
    /\ Len(history) = 2
    /\ history[1].out # EmptyDict
    /\ SkippedFile(history[2].file)

\* ---------------------------------------------------------------------- C8
NonTotal(K) == {key \in K : key[3] # LitTotal}

\* the calls whose output holds the key
Producers(key) == {n \in DOMAIN history : key \in Keys(history[n].out)}

\* C8: in the dataset emitted, the keys (group, period, category) other than
\* "total" are the union of the keys of the per-file outputs, and the record
\* at each key is the record of the last file, in processing order, that
\* produced the key.
C8_LastFileWins ==
    pc = "done" =>
        /\ NonTotal(Keys(sorted_data)) =
               UNION {NonTotal(Keys(history[n].out)) : n \in DOMAIN history}
        /\ \A key \in NonTotal(Keys(sorted_data)) :
               RecordAt(sorted_data, key) = RecordAt(history[Max(Producers(key))].out, key)

\* two files produced the same key with different records, and the earlier
\* one another category of the same (group, period)
C8_KeyProducedTwice ==
    /\ pc = "done"
    /\ \E key \in NonTotal(Keys(sorted_data)) :
           /\ Producers(key) = {1, 2}
           /\ RecordAt(history[1].out, key) # RecordAt(history[2].out, key)
           /\ \E other \in NonTotal(Keys(history[1].out)) :
                  /\ other[1] = key[1]
                  /\ other[2] = key[2]
                  /\ Producers(other) = {1}

\* ---------------------------------------------------------------------- C9
\* year and month of a label MM.YYYY, read off their positions
YearOf(p) == DecimalValue(SubSeq(p, 4, 7))
MonthOf(p) == DecimalValue(SubSeq(p, 1, 2))

\* C9: in the dataset emitted, the periods of every group are in ascending
\* order of (year, month), and the sort keeps the groups, the periods of each
\* group and their entries as calculate_totals left them.
C9_ChronologicalOrder ==
    pc = "done" =>
        /\ DOMAIN sorted_data = DOMAIN parsed_data
        /\ \A g \in DOMAIN sorted_data :
               LET ks == sorted_data[g].keys IN
               /\ \A n \in 1..(Len(ks) - 1) :
                      \/ YearOf(ks[n]) < YearOf(ks[n + 1])
                      \/ /\ YearOf(ks[n]) = YearOf(ks[n + 1])
                         /\ MonthOf(ks[n]) <= MonthOf(ks[n + 1])
               /\ Len(ks) = Len(parsed_data[g].keys)
               /\ Range(ks) = Range(parsed_data[g].keys)
               /\ Range(ks) = DOMAIN sorted_data[g].at
               /\ sorted_data[g].at = parsed_data[g].at

\* a group whose periods were merged in the order 01.2021, 10.2019
C9_MergedOutOfOrder ==
    /\ pc = "done"
    /\ \E g \in DOMAIN parsed_data :
           parsed_data[g].keys = <<P012021, <<"1", "0", ".", "2", "0", "1", "9">> >>

\* --------------------------------------------------------------------- C10
Perms(n) == {f \in [1..n -> 1..n] : \A x, y \in 1..n : f[x] = f[y] => x = y}

\* two files of the batch produced a record for the same key
Conflict == \E m, n \in DOMAIN history : m # n /\ Keys(history[m].out) \cap Keys(history[n].out) # {}

\* C10: when no two files of the batch produce a record for the same (group,
\* period, category), the dataset emitted, derived totals included, is
\* value-equal to the one every other processing order of the files gives.
C10_OrderIndependent ==
    (pc = "done" /\ ~Conflict) =>
        \A f \in Perms(Len(history)) :
            Value(EmittedFor([n \in 1..Len(history) |-> history[f[n]].out])) = Value(sorted_data)

\* two files without a common key contributed to the same (group, period)
C10_SharedPeriod ==
    /\ pc = "done"
    /\ ~Conflict
    /\ \E m, n \in DOMAIN history :
           /\ m # n
           /\ \E a \in Keys(history[m].out) : \E b \in Keys(history[n].out) :
                  a[1] = b[1] /\ a[2] = b[2]

=============================================================================
